---- MODULE Spec2Model ----
(***************************************************************************)
(* A model of package s2list (src/s2list.go): singly linked lists with    *)
(* first/last pointers (List_base), nodes carrying a pointer to the list  *)
(* they are in (List_node), and a validating iterator (List_iter).        *)
(*                                                                         *)
(* Pointers are modelled as indices: a *List_node is an element of Nodes  *)
(* or NIL, a *List_base is an element of Lists or NIL.  The heap is the   *)
(* pair of functions node, list; alloc is the set of nodes created so far *)
(* by new(List_node).  Every exported method is one action; res records   *)
(* the call made last (method, receiver, argument) and what it returned.  *)
(***************************************************************************)
EXTENDS Integers, Sequences, FiniteSets

\* Size of the node pool: new(List_node) succeeds NumNodes times.
NumNodes == 3

\* The nil pointer (zero value of *List_node and *List_base).
NIL == 0

Nodes == 1..NumNodes

\* The list bases.  The code reads a *List_base only to compare it with nil
\* and with the receiver, so the receiver and one other list show every case.
Lists == {1, 2}

\* Payloads a caller stores; NoValue is the nil interface{} of a new node.
\* No method of List_base or List_iter reads a payload: where the caller is
\* arbitrary one payload, AnyValue, stands for all of them.
Values == {"a", "b", "c"}
AnyValue == {"a"}
NoValue == "none"

\* The error values of the package, grouped by the condition they report;
\* NoErr is the nil error.
NoErr == "nil"
NilReceiver == "NilReceiver"
AlreadyOwned == "AlreadyOwned"
NotOwner == "NotOwner"
CorruptState == "CorruptState"
UnboundIterator == "UnboundIterator"

VARIABLES
    alloc,  \* the nodes created so far
    node,   \* node[n] = [next, base, value]: the fields of List_node n
    list,   \* list[b] = [first, last]: the fields of List_base b
    iter,   \* [base, current]: the fields of the List_iter
    res,    \* the last call and its return values
    client  \* the local variables of the calling program

vars == <<alloc, node, list, iter, res, client>>

\* The zero value of a List_node.
NewListNode == [next |-> NIL, base |-> NIL, value |-> NoValue]

\* The zero value of a List_base.
NewListBase == [first |-> NIL, last |-> NIL]

\* The zero value of a List_iter.
NewListIter == [base |-> NIL, current |-> NIL]

\* A call of method op on receiver p with node argument q, returning node nd
\* and error err.
Ret(op, p, q, nd, err) ==
    [op |-> op, p |-> p, q |-> q, node |-> nd, err |-> err,
     val |-> FALSE, cnt |-> <<>>]

\* A call of a method that returns a boolean.
RetBool(op, p, q, val, err) ==
    [op |-> op, p |-> p, q |-> q, node |-> NIL, err |-> err,
     val |-> val, cnt |-> <<>>]

\* A call of a method that returns counts.
RetCount(op, p, cnt) ==
    [op |-> op, p |-> p, q |-> NIL, node |-> NIL, err |-> NoErr,
     val |-> FALSE, cnt |-> cnt]

\* The state after construction: no node created, every list base and the
\* iterator zero-valued, no call made.
Start ==
    /\ alloc = {}
    /\ node = [n \in Nodes |-> NewListNode]
    /\ list = [b \in Lists |-> NewListBase]
    /\ iter = NewListIter
    /\ res = Ret("none", NIL, NIL, NIL, NoErr)

\* A caller that keeps no variables of its own.
NoClient == [pc |-> "any"]

Init == Start /\ client = NoClient

----------------------------------------------------------------------------
\* List_node

\* new(List_node): the node the allocator hands out next.
FreshNode == CHOOSE n \in Nodes \ alloc : \A m \in Nodes \ alloc : n <= m

\* A caller creates a node.
NewNode ==
    /\ alloc # Nodes
    /\ alloc' = alloc \cup {FreshNode}
    /\ res' = Ret("new", NIL, NIL, FreshNode, NoErr)
    /\ UNCHANGED <<node, list, iter>>

\* unlink that forgets to clear the base pointer.
unlinkKeepBase(nd) == [nd EXCEPT !.next = NIL]

\* List_node::unlink on the fields of one node.
unlink(nd) == [nd EXCEPT !.next = NIL, !.base = NIL]

\* List_node::GetNext
GetNext(q) ==
    /\ res' = IF q = NIL THEN Ret("GetNext", NIL, q, NIL, NilReceiver)
              ELSE Ret("GetNext", NIL, q, node[q].next, NoErr)
    /\ UNCHANGED <<alloc, node, list, iter>>

\* List_node::SetValue
SetValue(q, v) ==
    /\ IF q = NIL
       THEN /\ res' = Ret("SetValue", NIL, q, NIL, NilReceiver)
            /\ UNCHANGED node
       ELSE /\ node' = [node EXCEPT ![q].value = v]
            /\ res' = Ret("SetValue", NIL, q, NIL, NoErr)
    /\ UNCHANGED <<alloc, list, iter>>

\* List_node::GetValue
GetValue(q) ==
    /\ res' = IF q = NIL THEN Ret("GetValue", NIL, q, NIL, NilReceiver)
              ELSE [Ret("GetValue", NIL, q, NIL, NoErr) EXCEPT !.cnt = <<node[q].value>>]
    /\ UNCHANGED <<alloc, node, list, iter>>

----------------------------------------------------------------------------
\* List_base

\* List_base::Empty
Empty(p) ==
    /\ res' = IF p = NIL THEN RetBool("Empty", p, NIL, TRUE, NoErr)
              ELSE IF list[p].first = NIL THEN RetBool("Empty", p, NIL, TRUE, NoErr)
              ELSE RetBool("Empty", p, NIL, FALSE, NoErr)
    /\ UNCHANGED <<alloc, node, list, iter>>

\* List_base::GetFirst
GetFirst(p) ==
    /\ res' = IF p = NIL THEN Ret("GetFirst", p, NIL, NIL, NoErr)
              ELSE Ret("GetFirst", p, NIL, list[p].first, NoErr)
    /\ UNCHANGED <<alloc, node, list, iter>>

\* The loop "for q := p.first; q != nil; q = q.next { n += 1 }" from node q.
RECURSIVE CountFrom(_)
CountFrom(q) == IF q = NIL THEN 0 ELSE 1 + CountFrom(node[q].next)

\* List_base::Length
Length(p) ==
    /\ res' = IF p = NIL THEN RetCount("Length", p, <<0>>)
              ELSE IF list[p].first # NIL /\ list[p].last # NIL
                   THEN RetCount("Length", p, <<CountFrom(list[p].first)>>)
                   ELSE RetCount("Length", p, <<0>>)
    /\ UNCHANGED <<alloc, node, list, iter>>

\* The loop of List_base::ValidLength from node q: (n_nil, n_wrong, n_total).
RECURSIVE ValidCountFrom(_, _)
ValidCountFrom(p, q) ==
    IF q = NIL THEN <<0, 0, 0>>
    ELSE LET r == ValidCountFrom(p, node[q].next)
         IN  <<r[1] + (IF node[q].base = NIL THEN 1 ELSE 0),
               r[2] + (IF node[q].base # NIL /\ node[q].base # p THEN 1 ELSE 0),
               r[3] + 1>>

\* List_base::ValidLength
ValidLength(p) ==
    /\ res' = IF p = NIL THEN RetCount("ValidLength", p, <<0, 0, 0>>)
              ELSE IF list[p].first = NIL \/ list[p].last = NIL
                   THEN RetCount("ValidLength", p, <<0, 0, 0>>)
                   ELSE RetCount("ValidLength", p, ValidCountFrom(p, list[p].first))
    /\ UNCHANGED <<alloc, node, list, iter>>

\* Append and Prepend without their test of the base pointer.
InSomeListNever(nd) == FALSE

\* The test of Append and Prepend that the node is in no list yet.
InSomeList(nd) == nd.base # NIL

\* What a method leaves behind and returns: the node fields, the list
\* fields, the node returned (NIL for a method returning only an error) and
\* the error.
Out(nd, ls, ret, err) == [node |-> nd, list |-> ls, ret |-> ret, err |-> err]

\* Append that forgets to register the node with the list base.
AppendNodesNoBase(nd, ls, p, pnode) ==
    LET n1 == [nd EXCEPT ![pnode].next = NIL]
    IN  IF ls[p].last # NIL
        THEN [n1 EXCEPT ![ls[p].last].next = pnode]
        ELSE n1

\* The node fields after the assignments of List_base::Append.
AppendNodes(nd, ls, p, pnode) ==
    LET n1 == [nd EXCEPT ![pnode].base = p, ![pnode].next = NIL]
    IN  IF ls[p].last # NIL
        THEN [n1 EXCEPT ![ls[p].last].next = pnode]
        ELSE n1

\* Append that forgets "p.last = pnode" on a list that has a last node.
AppendBaseKeepLast(ls, p, pnode) ==
    IF ls[p].last # NIL
    THEN ls[p]
    ELSE [first |-> pnode, last |-> pnode]

\* The fields of list p after the assignments of List_base::Append.
AppendBase(ls, p, pnode) ==
    IF ls[p].last # NIL
    THEN [ls[p] EXCEPT !.last = pnode]
    ELSE [first |-> pnode, last |-> pnode]

\* List_base::Append on the heap (nd, ls).
AppendResult(nd, ls, p, pnode) ==
    IF p = NIL THEN Out(nd, ls, NIL, NilReceiver)
    ELSE IF pnode = NIL THEN Out(nd, ls, NIL, NoErr)
    ELSE IF InSomeList(nd[pnode]) THEN Out(nd, ls, NIL, AlreadyOwned)
    ELSE Out(AppendNodes(nd, ls, p, pnode),
             [ls EXCEPT ![p] = AppendBase(ls, p, pnode)], NIL, NoErr)

\* A call of a List_base method whose outcome is r.
Call(op, p, q, r) ==
    /\ node' = r.node
    /\ list' = r.list
    /\ res' = Ret(op, p, q, r.ret, r.err)

\* List_base::Append
AppendNode(p, pnode) ==
    /\ Call("Append", p, pnode, AppendResult(node, list, p, pnode))
    /\ UNCHANGED <<alloc, iter>>

\* List_base::AppendValue: a new node with value v is appended.  new() has
\* a node to hand out as long as the pool is not used up.
AppendValue(p, v) ==
    IF p = NIL
    THEN /\ res' = Ret("AppendValue", p, NIL, NIL, NilReceiver)
         /\ UNCHANGED <<alloc, node, list, iter>>
    ELSE /\ alloc # Nodes
         /\ alloc' = alloc \cup {FreshNode}
         /\ Call("AppendValue", p, NIL,
                 AppendResult([node EXCEPT ![FreshNode].value = v], list, p, FreshNode))
         /\ UNCHANGED iter

\* Prepend that forgets "pnode.next = p.first".
PrependNodesDropRest(nd, ls, p, pnode) ==
    [nd EXCEPT ![pnode].base = p, ![pnode].next = NIL]

\* The node fields after the assignments of List_base::Prepend.
PrependNodes(nd, ls, p, pnode) ==
    [nd EXCEPT ![pnode].base = p, ![pnode].next = ls[p].first]

\* The fields of list p after the assignments of List_base::Prepend.
PrependBase(ls, p, pnode) ==
    [first |-> pnode, last |-> IF ls[p].last = NIL THEN pnode ELSE ls[p].last]

\* List_base::Prepend on the heap (nd, ls).
PrependResult(nd, ls, p, pnode) ==
    IF p = NIL THEN Out(nd, ls, NIL, NilReceiver)
    ELSE IF pnode = NIL THEN Out(nd, ls, NIL, NoErr)
    ELSE IF InSomeList(nd[pnode]) THEN Out(nd, ls, NIL, AlreadyOwned)
    ELSE Out(PrependNodes(nd, ls, p, pnode),
             [ls EXCEPT ![p] = PrependBase(ls, p, pnode)], NIL, NoErr)

\* List_base::Prepend
Prepend(p, pnode) ==
    /\ Call("Prepend", p, pnode, PrependResult(node, list, p, pnode))
    /\ UNCHANGED <<alloc, iter>>

\* List_base::PrependValue
PrependValue(p, v) ==
    IF p = NIL
    THEN /\ res' = Ret("PrependValue", p, NIL, NIL, NilReceiver)
         /\ UNCHANGED <<alloc, node, list, iter>>
    ELSE /\ alloc # Nodes
         /\ alloc' = alloc \cup {FreshNode}
         /\ Call("PrependValue", p, NIL,
                 PrependResult([node EXCEPT ![FreshNode].value = v], list, p, FreshNode))
         /\ UNCHANGED iter

\* Taking the first node off without the test "p.last == p.first".
DropFirstKeepLast(nd, b) == [first |-> nd[b.first].next, last |-> b.last]

\* The fields of list p after its first node was taken off (Popfirst, the
\* first-element case of Remove, one round of the loop of Clear).
DropFirst(nd, b) ==
    [first |-> nd[b.first].next,
     last |-> IF b.last = b.first THEN NIL ELSE b.last]

\* Popfirst that takes the last node instead of the first.
PopfirstResultTakesLast(nd, ls, p) ==
    IF p = NIL THEN Out(nd, ls, NIL, NilReceiver)
    ELSE IF ls[p].first = NIL THEN Out(nd, ls, NIL, NoErr)
    ELSE IF ls[p].last = NIL THEN Out(nd, ls, NIL, CorruptState)
    ELSE Out([nd EXCEPT ![ls[p].last] = unlink(@)],
             [ls EXCEPT ![p] = DropFirst(nd, ls[p])], ls[p].last, NoErr)

\* List_base::Popfirst on the heap (nd, ls).
PopfirstResult(nd, ls, p) ==
    IF p = NIL THEN Out(nd, ls, NIL, NilReceiver)
    ELSE IF ls[p].first = NIL THEN Out(nd, ls, NIL, NoErr)
    ELSE IF ls[p].last = NIL THEN Out(nd, ls, NIL, CorruptState)
    ELSE Out([nd EXCEPT ![ls[p].first] = unlink(@)],
             [ls EXCEPT ![p] = DropFirst(nd, ls[p])], ls[p].first, NoErr)

\* List_base::Popfirst
Popfirst(p) ==
    /\ Call("Popfirst", p, NIL, PopfirstResult(node, list, p))
    /\ UNCHANGED <<alloc, iter>>

\* The scan for a predecessor that starts behind the first node.
FindPredSkipFirst(nd, q, target) ==
    IF q = NIL \/ nd[q].next = NIL THEN NIL
    ELSE IF nd[nd[q].next].next = target THEN nd[q].next
    ELSE NIL

\* The loops of Poplast and Remove, "for q = p.first; q != nil; q = q.next
\* { if q.next == target { break } }", from node q: the first node whose
\* next is target, or NIL.
RECURSIVE FindPred(_, _, _)
FindPred(nd, q, target) ==
    IF q = NIL THEN NIL
    ELSE IF nd[q].next = target THEN q
    ELSE FindPred(nd, nd[q].next, target)

\* List_base::Poplast on the heap (nd, ls).
PoplastResult(nd, ls, p) ==
    IF p = NIL THEN Out(nd, ls, NIL, NilReceiver)
    ELSE IF ls[p].first = NIL THEN Out(nd, ls, NIL, NoErr)
    ELSE IF ls[p].last = NIL THEN Out(nd, ls, NIL, CorruptState)
    ELSE IF ls[p].last = ls[p].first
    THEN Out([nd EXCEPT ![ls[p].first] = unlink(@)],
             [ls EXCEPT ![p] = [first |-> NIL, last |-> NIL]], ls[p].first, NoErr)
    ELSE LET q == FindPred(nd, ls[p].first, ls[p].last)
             pnode == ls[p].last
         IN  IF q = NIL THEN Out(nd, ls, NIL, CorruptState)
             ELSE Out([[nd EXCEPT ![q].next = NIL] EXCEPT ![pnode] = unlink(@)],
                      [ls EXCEPT ![p].last = q], pnode, NoErr)

\* List_base::Poplast
Poplast(p) ==
    /\ Call("Poplast", p, NIL, PoplastResult(node, list, p))
    /\ UNCHANGED <<alloc, iter>>

\* The loop of List_base::Found from node pnode: is q met before the end?
RECURSIVE ScanFor(_, _)
ScanFor(pnode, q) ==
    IF pnode = NIL THEN FALSE
    ELSE IF pnode = q THEN TRUE
    ELSE ScanFor(node[pnode].next, q)

\* Found without its test "q.base != p".
FoundResultNoOwnerTest(p, q) ==
    IF p = NIL THEN <<FALSE, NilReceiver>>
    ELSE IF q = NIL THEN <<FALSE, NoErr>>
    ELSE IF list[p].first = NIL THEN <<FALSE, NoErr>>
    ELSE IF list[p].last = NIL THEN <<FALSE, CorruptState>>
    ELSE <<ScanFor(list[p].first, q), NoErr>>

\* List_base::Found: the boolean and the error returned.
FoundResult(p, q) ==
    IF p = NIL THEN <<FALSE, NilReceiver>>
    ELSE IF q = NIL THEN <<FALSE, NoErr>>
    ELSE IF list[p].first = NIL THEN <<FALSE, NoErr>>
    ELSE IF list[p].last = NIL THEN <<FALSE, CorruptState>>
    ELSE IF node[q].base # p THEN <<FALSE, NotOwner>>
    ELSE <<ScanFor(list[p].first, q), NoErr>>

\* List_base::Found
Found(p, q) ==
    /\ res' = RetBool("Found", p, q, FoundResult(p, q)[1], FoundResult(p, q)[2])
    /\ UNCHANGED <<alloc, node, list, iter>>

\* Remove that makes its test "q.base != p" before the test for an empty list.
RemoveResultOwnerTestFirst(nd, ls, p, q) ==
    IF p = NIL THEN Out(nd, ls, NIL, NilReceiver)
    ELSE IF q = NIL THEN Out(nd, ls, NIL, NoErr)
    ELSE IF nd[q].base # p THEN Out(nd, ls, NIL, NotOwner)
    ELSE IF ls[p].first = NIL THEN Out(nd, ls, NIL, NoErr)
    ELSE IF ls[p].last = NIL THEN Out(nd, ls, NIL, CorruptState)
    ELSE IF ls[p].first = q
    THEN Out([nd EXCEPT ![q] = unlink(@)],
             [ls EXCEPT ![p] = DropFirst(nd, ls[p])], q, NoErr)
    ELSE LET pnode == FindPred(nd, ls[p].first, q)
         IN  IF pnode = NIL THEN Out(nd, ls, NIL, CorruptState)
             ELSE Out([[nd EXCEPT ![pnode].next = nd[q].next] EXCEPT ![q] = unlink(@)],
                      [ls EXCEPT ![p].last = IF ls[p].last = q THEN pnode ELSE @],
                      q, NoErr)

\* Remove that forgets "p.last = pnode" when it takes the last node out.
RemoveResultKeepLast(nd, ls, p, q) ==
    IF p = NIL THEN Out(nd, ls, NIL, NilReceiver)
    ELSE IF q = NIL THEN Out(nd, ls, NIL, NoErr)
    ELSE IF ls[p].first = NIL THEN Out(nd, ls, NIL, NoErr)
    ELSE IF ls[p].last = NIL THEN Out(nd, ls, NIL, CorruptState)
    ELSE IF nd[q].base # p THEN Out(nd, ls, NIL, NotOwner)
    ELSE IF ls[p].first = q
    THEN Out([nd EXCEPT ![q] = unlink(@)],
             [ls EXCEPT ![p] = DropFirst(nd, ls[p])], q, NoErr)
    ELSE LET pnode == FindPred(nd, ls[p].first, q)
         IN  IF pnode = NIL THEN Out(nd, ls, NIL, CorruptState)
             ELSE Out([[nd EXCEPT ![pnode].next = nd[q].next] EXCEPT ![q] = unlink(@)],
                      ls, q, NoErr)

\* List_base::Remove on the heap (nd, ls).
RemoveResult(nd, ls, p, q) ==
    IF p = NIL THEN Out(nd, ls, NIL, NilReceiver)
    ELSE IF q = NIL THEN Out(nd, ls, NIL, NoErr)
    ELSE IF ls[p].first = NIL THEN Out(nd, ls, NIL, NoErr)
    ELSE IF ls[p].last = NIL THEN Out(nd, ls, NIL, CorruptState)
    ELSE IF nd[q].base # p THEN Out(nd, ls, NIL, NotOwner)
    ELSE IF ls[p].first = q
    THEN Out([nd EXCEPT ![q] = unlink(@)],
             [ls EXCEPT ![p] = DropFirst(nd, ls[p])], q, NoErr)
    ELSE LET pnode == FindPred(nd, ls[p].first, q)
         IN  IF pnode = NIL THEN Out(nd, ls, NIL, CorruptState)
             ELSE Out([[nd EXCEPT ![pnode].next = nd[q].next] EXCEPT ![q] = unlink(@)],
                      [ls EXCEPT ![p].last = IF ls[p].last = q THEN pnode ELSE @],
                      q, NoErr)

\* List_base::Remove
Remove(p, q) ==
    /\ Call("Remove", p, q, RemoveResult(node, list, p, q))
    /\ UNCHANGED <<alloc, iter>>

\* Clear with "if p.first != nil" in place of its loop.
ClearLoopOnce(nd, b) ==
    IF b.first = NIL THEN [node |-> nd, base |-> b]
    ELSE [node |-> [nd EXCEPT ![b.first] = unlink(@)], base |-> DropFirst(nd, b)]

\* The loop of List_base::Clear, "for p.first != nil { ... }", on the node
\* fields nd and the fields b of the list: the heap when it ends.
RECURSIVE ClearLoop(_, _)
ClearLoop(nd, b) ==
    IF b.first = NIL THEN [node |-> nd, base |-> b]
    ELSE ClearLoop([nd EXCEPT ![b.first] = unlink(@)], DropFirst(nd, b))

\* Clear that takes a nil receiver for an empty list.
ClearResultNilEmpty(nd, ls, p) ==
    IF p = NIL THEN Out(nd, ls, NIL, NoErr)
    ELSE IF ls[p].first = NIL THEN Out(nd, ls, NIL, NoErr)
    ELSE IF ls[p].last = NIL THEN Out(nd, ls, NIL, CorruptState)
    ELSE LET c == ClearLoop(nd, ls[p])
         IN  Out(c.node, [ls EXCEPT ![p] = c.base], NIL, NoErr)

\* List_base::Clear on the heap (nd, ls).
ClearResult(nd, ls, p) ==
    IF p = NIL THEN Out(nd, ls, NIL, NilReceiver)
    ELSE IF ls[p].first = NIL THEN Out(nd, ls, NIL, NoErr)
    ELSE IF ls[p].last = NIL THEN Out(nd, ls, NIL, CorruptState)
    ELSE LET c == ClearLoop(nd, ls[p])
         IN  Out(c.node, [ls EXCEPT ![p] = c.base], NIL, NoErr)

\* List_base::Clear
Clear(p) ==
    /\ Call("Clear", p, NIL, ClearResult(node, list, p))
    /\ UNCHANGED <<alloc, iter>>

----------------------------------------------------------------------------
\* List_iter.  There is one iterator; self = FALSE is a call on a nil
\* *List_iter.

\* List_iter::Init
IterInit(self, b) ==
    /\ IF ~self
       THEN /\ res' = Ret("Init", b, NIL, NIL, NilReceiver)
            /\ UNCHANGED iter
       ELSE /\ iter' = [base |-> b, current |-> NIL]
            /\ res' = Ret("Init", b, NIL, NIL, NoErr)
    /\ UNCHANGED <<alloc, node, list>>

\* Restart that forgets "p.current = nil".
RestartKeepCurrent(self) ==
    /\ res' = Ret("Restart", NIL, NIL, NIL, IF self THEN NoErr ELSE NilReceiver)
    /\ UNCHANGED <<alloc, node, list, iter>>

\* List_iter::Restart
Restart(self) ==
    /\ IF ~self
       THEN /\ res' = Ret("Restart", NIL, NIL, NIL, NilReceiver)
            /\ UNCHANGED iter
       ELSE /\ iter' = [iter EXCEPT !.current = NIL]
            /\ res' = Ret("Restart", NIL, NIL, NIL, NoErr)
    /\ UNCHANGED <<alloc, node, list>>

\* Next without the integrity tests of the node it stands on.
CurrentCorruptNever(it, cur) == FALSE

\* The integrity test without "p.current.base != p.base".
CurrentCorruptNilOnly(it, cur) == node[cur].base = NIL

\* The integrity test List_iter::Next makes of the node it stands on.
CurrentCorrupt(it, cur) == node[cur].base = NIL \/ node[cur].base # it.base

\* Next that forgets where it stands when it comes to the end of the list.
NextResultStartOver(self, it) ==
    IF ~self THEN [iter |-> it, ret |-> NIL, err |-> NilReceiver]
    ELSE IF it.base = NIL THEN [iter |-> it, ret |-> NIL, err |-> UnboundIterator]
    ELSE IF it.current = NIL
    THEN LET cur == list[it.base].first
             it1 == [it EXCEPT !.current = cur]
         IN  IF cur = NIL THEN [iter |-> it1, ret |-> NIL, err |-> NoErr]
             ELSE IF CurrentCorrupt(it1, cur)
             THEN [iter |-> it1, ret |-> NIL, err |-> CorruptState]
             ELSE [iter |-> it1, ret |-> cur, err |-> NoErr]
    ELSE IF CurrentCorrupt(it, it.current)
    THEN [iter |-> it, ret |-> NIL, err |-> CorruptState]
    ELSE IF node[it.current].next = NIL
    THEN [iter |-> [it EXCEPT !.current = NIL], ret |-> NIL, err |-> NoErr]
    ELSE [iter |-> [it EXCEPT !.current = node[it.current].next],
          ret |-> node[it.current].next, err |-> NoErr]

\* List_iter::Next: the iterator it after the call, the node and the error
\* returned.
NextResult(self, it) ==
    IF ~self THEN [iter |-> it, ret |-> NIL, err |-> NilReceiver]
    ELSE IF it.base = NIL THEN [iter |-> it, ret |-> NIL, err |-> UnboundIterator]
    ELSE IF it.current = NIL
    THEN LET cur == list[it.base].first
             it1 == [it EXCEPT !.current = cur]
         IN  IF cur = NIL THEN [iter |-> it1, ret |-> NIL, err |-> NoErr]
             ELSE IF CurrentCorrupt(it1, cur)
             THEN [iter |-> it1, ret |-> NIL, err |-> CorruptState]
             ELSE [iter |-> it1, ret |-> cur, err |-> NoErr]
    ELSE IF CurrentCorrupt(it, it.current)
    THEN [iter |-> it, ret |-> NIL, err |-> CorruptState]
    ELSE IF node[it.current].next = NIL
    THEN [iter |-> it, ret |-> NIL, err |-> NoErr]
    ELSE [iter |-> [it EXCEPT !.current = node[it.current].next],
          ret |-> node[it.current].next, err |-> NoErr]

\* List_iter::Next
IterNext(self) ==
    /\ iter' = NextResult(self, iter).iter
    /\ res' = Ret("Next", iter.base, NIL, NextResult(self, iter).ret,
                  NextResult(self, iter).err)
    /\ UNCHANGED <<alloc, node, list>>

\* List_iter::ItemCount
ItemCount(self) ==
    /\ res' = IF ~self THEN RetCount("ItemCount", NIL, <<0>>)
              ELSE IF iter.base = NIL THEN RetCount("ItemCount", NIL, <<0>>)
              ELSE IF list[iter.base].first # NIL /\ list[iter.base].last # NIL
                   THEN RetCount("ItemCount", iter.base, <<CountFrom(list[iter.base].first)>>)
                   ELSE RetCount("ItemCount", iter.base, <<0>>)
    /\ UNCHANGED <<alloc, node, list, iter>>

\* List_iter::ItemCountValid
ItemCountValid(self) ==
    /\ res' = IF ~self THEN RetCount("ItemCountValid", NIL, <<0, 0, 0>>)
              ELSE IF iter.base = NIL THEN RetCount("ItemCountValid", NIL, <<0, 0, 0>>)
              ELSE IF list[iter.base].first = NIL \/ list[iter.base].last = NIL
                   THEN RetCount("ItemCountValid", iter.base, <<0, 0, 0>>)
                   ELSE RetCount("ItemCountValid", iter.base,
                                 ValidCountFrom(iter.base, list[iter.base].first))
    /\ UNCHANGED <<alloc, node, list, iter>>

----------------------------------------------------------------------------
\* The lists and nodes under any caller: every call of a List_node or
\* List_base method, with any arguments the caller can have.

Args == alloc \cup {NIL}
Recv == Lists \cup {NIL}

\* The list that is not p.
Other(p) == CHOOSE b \in Lists : b # p

Next ==
    \/ NewNode /\ UNCHANGED client
    \/ \E q \in Args : GetNext(q) /\ UNCHANGED client
    \/ \E q \in Args, v \in AnyValue : SetValue(q, v) /\ UNCHANGED client
    \/ \E q \in Args : GetValue(q) /\ UNCHANGED client
    \/ \E p \in Recv : Empty(p) /\ UNCHANGED client
    \/ \E p \in Recv : GetFirst(p) /\ UNCHANGED client
    \/ \E p \in Recv : Length(p) /\ UNCHANGED client
    \/ \E p \in Recv : ValidLength(p) /\ UNCHANGED client
    \/ \E p \in Recv, q \in Args : AppendNode(p, q) /\ UNCHANGED client
    \/ \E p \in Recv, v \in AnyValue : AppendValue(p, v) /\ UNCHANGED client
    \/ \E p \in Recv, q \in Args : Prepend(p, q) /\ UNCHANGED client
    \/ \E p \in Recv, v \in AnyValue : PrependValue(p, v) /\ UNCHANGED client
    \/ \E p \in Recv : Popfirst(p) /\ UNCHANGED client
    \/ \E p \in Recv : Poplast(p) /\ UNCHANGED client
    \/ \E p \in Recv, q \in Args : Found(p, q) /\ UNCHANGED client
    \/ \E p \in Recv, q \in Args : Remove(p, q) /\ UNCHANGED client
    \/ \E p \in Recv : Clear(p) /\ UNCHANGED client

Spec == Init /\ [][Next]_vars

\* The iterator under any caller: every call that changes a list, and every
\* call of a List_iter method.
NextIter ==
    \/ NewNode /\ UNCHANGED client
    \/ \E p \in Recv, q \in Args : AppendNode(p, q) /\ UNCHANGED client
    \/ \E p \in Recv, q \in Args : Prepend(p, q) /\ UNCHANGED client
    \/ \E p \in Recv : Popfirst(p) /\ UNCHANGED client
    \/ \E p \in Recv : Poplast(p) /\ UNCHANGED client
    \/ \E p \in Recv, q \in Args : Remove(p, q) /\ UNCHANGED client
    \/ \E p \in Recv : Clear(p) /\ UNCHANGED client
    \/ \E self \in BOOLEAN, b \in Recv : IterInit(self, b) /\ UNCHANGED client
    \/ \E self \in BOOLEAN : Restart(self) /\ UNCHANGED client
    \/ \E self \in BOOLEAN : IterNext(self) /\ UNCHANGED client
    \/ \E self \in BOOLEAN : ItemCount(self) /\ UNCHANGED client
    \/ \E self \in BOOLEAN : ItemCountValid(self) /\ UNCHANGED client

SpecIter == Init /\ [][NextIter]_vars

----------------------------------------------------------------------------
\* The integrity checks under a caller that corrupts a list.  The fields of
\* List_base and List_node are unexported, and the methods check them "in
\* case there is a suspicion of structure-corruption": a write that goes past
\* the methods puts any pointer into first or last of a list base or into
\* the base of a node.  The caller builds lists, makes one such write, and
\* then calls the methods that take nodes out and the iterator.

Sound == [pc |-> "sound"]
Corrupted == [pc |-> "corrupt"]

InitCorrupt == Start /\ client = Sound

\* A write to p.first, p.last or q.base that is not made by a method.
StrayWrite ==
    /\ client = Sound
    /\ \/ \E p \in Lists, x \in Args :
              /\ list' = [list EXCEPT ![p].first = x]
              /\ UNCHANGED node
       \/ \E p \in Lists, x \in Args :
              /\ list' = [list EXCEPT ![p].last = x]
              /\ UNCHANGED node
       \/ \E q \in alloc, b \in Recv :
              /\ node' = [node EXCEPT ![q].base = b]
              /\ UNCHANGED list
    /\ client' = Corrupted
    /\ res' = Ret("write", NIL, NIL, NIL, NoErr)
    /\ UNCHANGED <<alloc, iter>>

NextCorrupt ==
    \/ \E p \in Lists, v \in AnyValue :
           client = Sound /\ AppendValue(p, v) /\ UNCHANGED client
    \/ \E b \in Lists : IterInit(TRUE, b) /\ UNCHANGED client
    \/ StrayWrite
    \/ \E p \in Lists : client = Corrupted /\ Popfirst(p) /\ UNCHANGED client
    \/ \E p \in Lists : client = Corrupted /\ Poplast(p) /\ UNCHANGED client
    \/ \E p \in Lists, q \in alloc :
           client = Corrupted /\ Remove(p, q) /\ UNCHANGED client
    \/ \E p \in Lists : client = Corrupted /\ Clear(p) /\ UNCHANGED client
    \/ IterNext(TRUE) /\ UNCHANGED client
    \/ Restart(TRUE) /\ UNCHANGED client

SpecCorrupt == InitCorrupt /\ [][NextCorrupt]_vars

----------------------------------------------------------------------------
\* A caller that takes out the node the iterator would deliver next.  While
\* the iterator stands on a node of its list, the caller removes the node
\* after it with Remove or Poplast (victim), may append that node to the
\* other list, and then calls Next.

Free == [pc |-> "free", victim |-> NIL]

InitSkip == Start /\ client = Free

\* The iterator stands on a node of its list that has a successor.
HasSuccessor ==
    /\ iter.base # NIL /\ iter.current # NIL
    /\ node[iter.current].base = iter.base
    /\ node[iter.current].next # NIL

SkRemove ==
    /\ client = Free /\ HasSuccessor
    /\ Remove(iter.base, node[iter.current].next)
    /\ client' = [pc |-> "removed", victim |-> node[iter.current].next]

SkPoplast ==
    /\ client = Free /\ HasSuccessor
    /\ node[iter.current].next = list[iter.base].last
    /\ Poplast(iter.base)
    /\ client' = [pc |-> "removed", victim |-> node[iter.current].next]

SkMove ==
    /\ client.pc = "removed"
    /\ AppendNode(Other(iter.base), client.victim)
    /\ client' = [client EXCEPT !.pc = "moved"]

SkCheck ==
    /\ client.pc \in {"removed", "moved"}
    /\ IterNext(TRUE)
    /\ client' = Free

NextSkip ==
    \/ \E p \in Lists, v \in AnyValue :
           client = Free /\ AppendValue(p, v) /\ UNCHANGED client
    \/ \E b \in Lists : client = Free /\ IterInit(TRUE, b) /\ UNCHANGED client
    \/ client = Free /\ IterNext(TRUE) /\ UNCHANGED client
    \/ SkRemove
    \/ SkPoplast
    \/ SkMove
    \/ SkCheck

SpecSkip == InitSkip /\ [][NextSkip]_vars

----------------------------------------------------------------------------
\* A caller that counts a traversal.  Any call that can change a list puts
\* it back to "build"; Init on a list, and Restart of a bound iterator, start
\* a traversal; from then on the caller calls Next, counts in k the nodes
\* delivered and in ends (up to two) the nil nodes returned.

Building == [pc |-> "build", k |-> 0, ends |-> 0]
Walking == [pc |-> "walk", k |-> 0, ends |-> 0]

InitTraverse == Start /\ client = Building

TvInit == \E b \in Lists : IterInit(TRUE, b) /\ client' = Walking

TvRestart == iter.base # NIL /\ Restart(TRUE) /\ client' = Walking

TvNext ==
    /\ client.pc = "walk"
    /\ IterNext(TRUE)
    /\ client' = IF NextResult(TRUE, iter).ret # NIL
                 THEN [client EXCEPT !.k = @ + 1]
                 ELSE [client EXCEPT !.ends = IF @ < 2 THEN @ + 1 ELSE @]

NextTraverse ==
    \/ \E p \in Lists, v \in AnyValue : AppendValue(p, v) /\ client' = Building
    \/ \E p \in Lists, v \in AnyValue : PrependValue(p, v) /\ client' = Building
    \/ \E p \in Lists : Popfirst(p) /\ client' = Building
    \/ \E p \in Lists : Poplast(p) /\ client' = Building
    \/ \E p \in Lists, q \in alloc : Remove(p, q) /\ client' = Building
    \/ \E p \in Lists : Clear(p) /\ client' = Building
    \/ TvInit
    \/ TvRestart
    \/ TvNext

SpecTraverse == InitTraverse /\ [][NextTraverse]_vars

----------------------------------------------------------------------------
\* A caller that makes a round trip: it appends the values vs to the empty
\* list b with AppendValue, binds the iterator to b, calls Next until Next
\* returns a nil node, calls Restart, and calls Next until nil once more.
\* It keeps the nodes delivered by the first traversal in seen, their
\* payloads in vals, the nodes of the second traversal in again, and in ok
\* whether every Next so far returned a nil error.

Seqs(S, n) == UNION {[1..k -> S] : k \in 0..n}

RoundTripClient(b, vs) ==
    [pc |-> "append", b |-> b, vs |-> vs, todo |-> vs,
     seen |-> <<>>, vals |-> <<>>, again |-> <<>>, ok |-> TRUE]

InitRoundTrip ==
    /\ Start
    /\ client \in {RoundTripClient(b, vs) : b \in Lists, vs \in Seqs(Values, NumNodes)}

RtAppend ==
    /\ client.pc = "append" /\ client.todo # <<>>
    /\ AppendValue(client.b, Head(client.todo))
    /\ client' = [client EXCEPT !.todo = Tail(@)]

RtInit ==
    /\ client.pc = "append" /\ client.todo = <<>>
    /\ IterInit(TRUE, client.b)
    /\ client' = [client EXCEPT !.pc = "first"]

RtFirst ==
    /\ client.pc = "first"
    /\ IterNext(TRUE)
    /\ client' = IF res'.node = NIL
                 THEN [client EXCEPT !.pc = "restart",
                                     !.ok = @ /\ res'.err = NoErr]
                 ELSE [client EXCEPT !.seen = Append(@, res'.node),
                                     !.vals = Append(@, node[res'.node].value),
                                     !.ok = @ /\ res'.err = NoErr]

RtRestart ==
    /\ client.pc = "restart"
    /\ Restart(TRUE)
    /\ client' = [client EXCEPT !.pc = "second", !.ok = @ /\ res'.err = NoErr]

RtSecond ==
    /\ client.pc = "second"
    /\ IterNext(TRUE)
    /\ client' = IF res'.node = NIL
                 THEN [client EXCEPT !.pc = "done",
                                     !.ok = @ /\ res'.err = NoErr]
                 ELSE [client EXCEPT !.again = Append(@, res'.node),
                                     !.ok = @ /\ res'.err = NoErr]

NextRoundTrip ==
    \/ RtAppend
    \/ RtInit
    \/ RtFirst
    \/ RtRestart
    \/ RtSecond

SpecRoundTrip == InitRoundTrip /\ [][NextRoundTrip]_vars

----------------------------------------------------------------------------
\* The chain of a list, read from first along next.  The walk stops after
\* NumNodes + 1 nodes: a chain longer than the pool has a node twice.

RECURSIVE Walk(_, _)
Walk(q, k) ==
    IF q = NIL \/ k = 0 THEN <<>> ELSE <<q>> \o Walk(node[q].next, k - 1)

Chain(p) == Walk(list[p].first, NumNodes + 1)

Reach(p) == {Chain(p)[i] : i \in 1..Len(Chain(p))}

\* The chain of list p in the heap (nd, ls).
RECURSIVE WalkIn(_, _, _)
WalkIn(nd, q, k) ==
    IF q = NIL \/ k = 0 THEN <<>> ELSE <<q>> \o WalkIn(nd, nd[q].next, k - 1)

ChainIn(nd, ls, p) == WalkIn(nd, ls[p].first, NumNodes + 1)

\* The calls that change a list.
Mutators ==
    {"Append", "AppendValue", "Prepend", "PrependValue", "Popfirst", "Poplast",
     "Remove", "Clear"}

----------------------------------------------------------------------------
\* C1: in every reachable state, every node reachable from the first of a
\* list along next has its base pointer equal to that list.
C1_ReachableOwned ==
    \A p \in Lists : \A n \in Reach(p) : node[n].base = p

\* Both lists hold nodes, one of them two, the last one put there by Append.
C1_Witness ==
    /\ res.op = "Append" /\ res.err = NoErr /\ res.p # NIL /\ res.q # NIL
    /\ Len(Chain(res.p)) >= 2
    /\ list[res.p].last = res.q
    /\ list[Other(res.p)].first # NIL

\* C2: in every reachable state no node is reachable from the first of two
\* different lists, and no node occurs twice in the chain of one list.
C2_OneListOnce ==
    /\ \A p1, p2 \in Lists : p1 # p2 => Reach(p1) \cap Reach(p2) = {}
    /\ \A p \in Lists : \A i, j \in 1..Len(Chain(p)) :
           Chain(p)[i] = Chain(p)[j] => i = j

\* A node of one list was offered to the other list, both holding nodes.
C2_Witness ==
    /\ res.op \in {"Append", "Prepend"} /\ res.p # NIL /\ res.q # NIL
    /\ res.q \in Reach(Other(res.p))
    /\ list[res.p].first # NIL

\* C3: Append or Prepend of a node whose base pointer is set, on any list,
\* returns the AlreadyOwned error and leaves every field of every node and of
\* every list as it was.
C3_AlreadyOwnedNoChange ==
    [][(/\ res'.op \in {"Append", "Prepend"}
        /\ res'.p # NIL /\ res'.q # NIL
        /\ node[res'.q].base # NIL)
       => (res'.err = AlreadyOwned /\ node' = node /\ list' = list)]_vars

\* Prepend of the middle node of a three-node list to the other list failed.
C3_Witness ==
    /\ res.op = "Prepend" /\ res.err = AlreadyOwned /\ res.p # NIL
    /\ Len(Chain(Other(res.p))) = 3
    /\ Chain(Other(res.p))[2] = res.q

\* C4 as claimed: Remove of a node that is not in the list returns (nil, nil)
\* if the node's base pointer is nil, and the NotOwner error if it points to
\* another list.
C4_AsClaimed ==
    [][(/\ res'.op = "Remove" /\ res'.p # NIL /\ res'.q # NIL
        /\ res'.q \notin Reach(res'.p))
       => /\ node[res'.q].base = NIL => (res'.node = NIL /\ res'.err = NoErr)
          /\ node[res'.q].base \notin {NIL, res'.p} => res'.err = NotOwner]_vars

\* C4: Remove of a node that is not in the list returns (nil, nil) if the
\* list is empty, whatever the node's base pointer; on a list that is not
\* empty it returns nil and the NotOwner error, whether the node's base
\* pointer is nil or points to another list.  Nothing changes.
C4_RemoveNotContained ==
    [][(/\ res'.op = "Remove" /\ res'.p # NIL /\ res'.q # NIL
        /\ res'.q \notin Reach(res'.p))
       => /\ res'.node = NIL
          /\ res'.err = IF list[res'.p].first = NIL THEN NoErr ELSE NotOwner
          /\ node' = node /\ list' = list]_vars

\* Remove of a node of the other list from an empty list returned (nil, nil).
C4_Witness ==
    /\ res.op = "Remove" /\ res.p # NIL /\ res.q # NIL
    /\ res.node = NIL /\ res.err = NoErr
    /\ list[res.p].first = NIL
    /\ res.q \in Reach(Other(res.p))

\* C5 as claimed: Found of a node in no list, on a list that is not empty,
\* returns false and no error.
C5_AsClaimed ==
    (/\ res.op = "Found" /\ res.p # NIL /\ res.q # NIL
     /\ list[res.p].first # NIL
     /\ node[res.q].base = NIL)
    => (res.val = FALSE /\ res.err = NoErr)

\* C5: Found of a node in no list, on a list that is not empty, returns
\* false together with the NotOwner error.
C5_FoundFreeNode ==
    (/\ res.op = "Found" /\ res.p # NIL /\ res.q # NIL
     /\ list[res.p].first # NIL
     /\ node[res.q].base = NIL)
    => (res.val = FALSE /\ res.err = NotOwner)

\* Found of a node in no list, on a list of two nodes made by AppendValue.
C5_Witness ==
    /\ res.op = "Found" /\ res.p # NIL /\ res.q # NIL
    /\ Len(Chain(res.p)) = 2
    /\ \A n \in Reach(res.p) : node[n].value \in Values
    /\ node[res.q] = NewListNode

\* C6: in every reachable state the first of a list is nil if and only if
\* its last is nil.
C6_FirstLastBoth ==
    \A p \in Lists : (list[p].first = NIL) <=> (list[p].last = NIL)

\* A list was emptied by taking its only node off.
C6_Witness ==
    /\ res.op \in {"Popfirst", "Poplast", "Remove"} /\ res.p # NIL
    /\ res.node # NIL
    /\ list[res.p] = NewListBase

\* C7: in every reachable state, the chain of a list that is not empty has
\* no cycle, ends at last, and last.next is nil.
C7_ChainEndsAtLast ==
    \A p \in Lists : list[p].first # NIL =>
        /\ Len(Chain(p)) <= NumNodes
        /\ list[p].last # NIL
        /\ Chain(p)[Len(Chain(p))] = list[p].last
        /\ node[list[p].last].next = NIL

\* The last node of a list of three was popped.
C7_Witness ==
    /\ res.op = "Poplast" /\ res.p # NIL /\ res.node # NIL
    /\ Len(Chain(res.p)) = 2

\* C8: in every reachable state a node's base pointer is nil if and only if
\* the node is in the chain of no list; a node whose base pointer is list p
\* is in the chain of p; a node in no list has next nil as well.
C8_OwnerIffReachable ==
    \A n \in Nodes :
        /\ (node[n].base = NIL) <=> (\A p \in Lists : n \notin Reach(p))
        /\ node[n].base # NIL => n \in Reach(node[n].base)
        /\ node[n].base = NIL => node[n].next = NIL

\* A node was removed from between two others, which stay in the list.
C8_Witness ==
    /\ res.op = "Remove" /\ res.p # NIL /\ res.node # NIL
    /\ Len(Chain(res.p)) = 2
    /\ res.node \notin {list[res.p].first, list[res.p].last}
    /\ node[res.node].base = NIL

IsPrefix(s, t) == Len(s) <= Len(t) /\ \A i \in 1..Len(s) : s[i] = t[i]

\* C9: after AppendValue of v1..vn to an empty list, the calls of Next from
\* a freshly initialised iterator until Next returns nil deliver exactly n
\* different nodes whose payloads are v1..vn in that order, each with a nil
\* error; after Restart a second traversal delivers the same nodes in the
\* same order.
C9_RoundTrip ==
    client.pc \in {"first", "restart", "second", "done"} =>
        /\ client.ok
        /\ IsPrefix(client.vals, client.vs)
        /\ Len(client.seen) = Len(client.vals)
        /\ \A i, j \in 1..Len(client.seen) :
               client.seen[i] = client.seen[j] => i = j
        /\ client.pc # "first" => client.vals = client.vs
        /\ IsPrefix(client.again, client.seen)
        /\ client.pc = "done" => client.again = client.seen

\* Both traversals of a list of three different payloads are over.
C9_Witness ==
    /\ client.pc = "done"
    /\ client.vs = <<"a", "b", "c">>
    /\ client.vals = client.vs
    /\ Len(client.again) = 3

\* C10: Clear of a list returns no error, leaves first and last nil and
\* every node that was in the chain with base and next nil; a Clear of the
\* same list right after it returns no error and changes nothing.
C10_Clear ==
    [][/\ (res'.op = "Clear" /\ res'.p # NIL)
          => /\ res'.err = NoErr
             /\ list'[res'.p] = NewListBase
             /\ \A n \in Reach(res'.p) :
                    node'[n].base = NIL /\ node'[n].next = NIL
             /\ \A n \in Nodes \ Reach(res'.p) : node'[n] = node[n]
             /\ list'[Other(res'.p)] = list[Other(res'.p)]
       /\ (/\ res.op = "Clear" /\ res.p # NIL
           /\ res'.op = "Clear" /\ res'.p = res.p)
          => (res'.err = NoErr /\ node' = node /\ list' = list)]_vars

\* A list was cleared while every node of the pool exists, and none is in a
\* list now.
C10_Witness ==
    /\ res.op = "Clear" /\ res.p # NIL /\ res.err = NoErr
    /\ alloc = Nodes
    /\ \A n \in Nodes : node[n].base = NIL /\ node[n].value # NoValue

\* C11: on a list whose chain is n1..nk, k >= 1, Popfirst returns n1 and
\* Poplast returns nk, each with a nil error and with base and next nil, and
\* the other nodes stay in the chain in their order; so Popfirst and then
\* Poplast on a list of two return the first and then the second node and
\* leave first and last nil.
C11_PopReturnsEnds ==
    [][/\ (res'.op = "Popfirst" /\ res'.p # NIL /\ list[res'.p].first # NIL)
          => /\ res'.node = Chain(res'.p)[1]
             /\ res'.err = NoErr
             /\ node'[res'.node].base = NIL /\ node'[res'.node].next = NIL
             /\ ChainIn(node', list', res'.p) = Tail(Chain(res'.p))
             /\ Len(Chain(res'.p)) = 1 => list'[res'.p] = NewListBase
       /\ (res'.op = "Poplast" /\ res'.p # NIL /\ list[res'.p].first # NIL)
          => /\ res'.node = Chain(res'.p)[Len(Chain(res'.p))]
             /\ res'.err = NoErr
             /\ node'[res'.node].base = NIL /\ node'[res'.node].next = NIL
             /\ ChainIn(node', list', res'.p) = SubSeq(Chain(res'.p), 1, Len(Chain(res'.p)) - 1)
             /\ Len(Chain(res'.p)) = 1 => list'[res'.p] = NewListBase]_vars

\* Poplast took the only node left of a list, which is empty now, while the
\* other two nodes of the pool are in no list.
C11_Witness ==
    /\ res.op = "Poplast" /\ res.p # NIL /\ res.node # NIL /\ res.err = NoErr
    /\ list[res.p] = NewListBase
    /\ alloc = Nodes
    /\ \A n \in Nodes : node[n].base = NIL

\* C12: Popfirst on a list whose first is nil and whose last is not nil
\* returns the CorruptState error.
C12_PopfirstFirstNilLastSet ==
    [][(/\ res'.op = "Popfirst" /\ res'.p # NIL
        /\ list[res'.p].first = NIL /\ list[res'.p].last # NIL)
       => res'.err = CorruptState]_vars

\* C13: whenever Next returns the CorruptState error, the current pointer of
\* the iterator after the call is the one before the call.
C13_CorruptLeavesCurrent ==
    [][(res'.op = "Next" /\ res'.err = CorruptState)
       => iter'.current = iter.current]_vars

\* The methods of List_base that return an error, and those that do not.
ErrorMethods ==
    {"Append", "AppendValue", "Prepend", "PrependValue", "Popfirst", "Poplast",
     "Found", "Remove", "Clear"}

PlainMethods == {"Empty", "GetFirst", "Length", "ValidLength"}

\* C14 as claimed: every List_base method called on a nil receiver returns
\* the NilReceiver error.
C14_AsClaimed ==
    (res.op \in ErrorMethods \cup PlainMethods /\ res.p = NIL)
    => res.err = NilReceiver

\* C14: Append, AppendValue, Prepend, PrependValue, Popfirst, Poplast, Found,
\* Remove and Clear called on a nil receiver return the NilReceiver error
\* (and a nil node, or false); Empty, GetFirst, Length and ValidLength return
\* no error at all: on a nil receiver Empty returns true, GetFirst nil,
\* Length 0 and ValidLength (0, 0, 0).
C14_NilReceiver ==
    res.p = NIL =>
        /\ res.op \in ErrorMethods
           => (res.err = NilReceiver /\ res.node = NIL /\ res.val = FALSE)
        /\ res.op = "Empty" => (res.val = TRUE /\ res.err = NoErr)
        /\ res.op = "GetFirst" => (res.node = NIL /\ res.err = NoErr)
        /\ res.op = "Length" => (res.cnt = <<0>> /\ res.err = NoErr)
        /\ res.op = "ValidLength" => (res.cnt = <<0, 0, 0>> /\ res.err = NoErr)

\* Clear was called on a nil receiver while both lists hold nodes.
C14_Witness ==
    /\ res.op = "Clear" /\ res.p = NIL /\ res.err = NilReceiver
    /\ \A p \in Lists : list[p].first # NIL

\* C15: Popfirst, Poplast and Remove on an empty list return (nil, nil) and
\* change no field of any list or node, whatever node is passed to Remove
\* and whatever its base pointer is.
C15_EmptyListNoChange ==
    [][(/\ res'.op \in {"Popfirst", "Poplast", "Remove"}
        /\ res'.p # NIL
        /\ list[res'.p].first = NIL)
       => /\ res'.node = NIL /\ res'.err = NoErr
          /\ node' = node /\ list' = list /\ alloc' = alloc]_vars

\* Remove from an empty list was called with a node that is in no list,
\* while the other list holds two nodes.
C15_Witness ==
    /\ res.op = "Remove" /\ res.p # NIL /\ res.q # NIL
    /\ list[res.p] = NewListBase
    /\ node[res.q].base = NIL
    /\ res.node = NIL /\ res.err = NoErr
    /\ Len(Chain(Other(res.p))) = 2

\* C16: if the iterator stands on a node that is no longer in the list the
\* iterator is bound to (its base pointer is nil, or is another list), the
\* next call of Next returns a nil node and the CorruptState error.
C16_RemovedCurrentDetected ==
    [][(/\ res'.op = "Next" /\ res'.err # NilReceiver
        /\ iter.base # NIL /\ iter.current # NIL
        /\ node[iter.current].base # iter.base)
       => (res'.node = NIL /\ res'.err = CorruptState)]_vars

\* Next failed on a node that was moved to the other list, as its last node
\* behind another one.
C16_Witness ==
    /\ res.op = "Next" /\ res.err = CorruptState /\ res.node = NIL
    /\ iter.base # NIL /\ iter.current # NIL
    /\ node[iter.current].base = Other(iter.base)
    /\ Len(Chain(Other(iter.base))) = 2
    /\ list[Other(iter.base)].last = iter.current

\* C17: if the node that the iterator would deliver next is removed from
\* the list between two calls of Next (and possibly appended to the other
\* list), the following Next returns a nil node and an error that is not nil.
C17_RemovedNextDetected ==
    [][(client.pc \in {"removed", "moved"} /\ res'.op = "Next")
       => (res'.node = NIL /\ res'.err # NoErr)]_vars

\* The abstract sequence of list b after the call r (what it was called on
\* and what it returned), given the sequence before the call: a call that
\* fails, and a call on the other list, leave it as it is.
AbstractAfter(r, b) ==
    LET s == Chain(b)
    IN  IF r.p # b \/ r.err # NoErr THEN s
        ELSE CASE r.op = "Append" -> IF r.q = NIL THEN s ELSE Append(s, r.q)
               [] r.op = "AppendValue" -> Append(s, FreshNode)
               [] r.op = "Prepend" -> IF r.q = NIL THEN s ELSE <<r.q>> \o s
               [] r.op = "PrependValue" -> <<FreshNode>> \o s
               [] r.op = "Popfirst" -> IF s = <<>> THEN s ELSE Tail(s)
               [] r.op = "Poplast" -> IF s = <<>> THEN s ELSE SubSeq(s, 1, Len(s) - 1)
               [] r.op = "Remove" -> SelectSeq(s, LAMBDA n : n # r.q)
               [] r.op = "Clear" -> <<>>
               [] OTHER -> s

\* C18: the chain of every list, read from first along next, follows the
\* abstract sequence: Append puts the node behind it, Prepend before it,
\* Popfirst takes the first and Poplast the last element off, Remove deletes
\* the node and keeps the order of the others, Clear leaves the empty
\* sequence, every other call leaves it as it is; and last is the final
\* element of the sequence (nil when it is empty).
C18_ChainRefinesSequence ==
    [][\A b \in Lists :
          /\ ChainIn(node', list', b) = AbstractAfter(res', b)
          /\ list'[b].last = IF AbstractAfter(res', b) = <<>> THEN NIL
                             ELSE AbstractAfter(res', b)[Len(AbstractAfter(res', b))]
      ]_vars

\* A node was put before two others by Prepend.
C18_Witness ==
    /\ res.op = "Prepend" /\ res.p # NIL /\ res.q # NIL /\ res.err = NoErr
    /\ Len(Chain(res.p)) = 3
    /\ Chain(res.p)[1] = res.q

\* C19: Remove returns nil or the node it was given; when it returns the
\* node, the node is no longer in the chain of the list, its base and next
\* are nil, and if it was the last node the list's last is the node that
\* was before it (nil if it was the only node).
C19_RemoveReturnsRequested ==
    [][res'.op = "Remove" =>
          /\ res'.node \in {NIL, res'.q}
          /\ res'.node # NIL =>
                /\ res'.p # NIL /\ res'.q \in Reach(res'.p)
                /\ \A i \in 1..Len(ChainIn(node', list', res'.p)) :
                       ChainIn(node', list', res'.p)[i] # res'.q
                /\ node'[res'.q].base = NIL /\ node'[res'.q].next = NIL
                /\ list[res'.p].last = res'.q =>
                       list'[res'.p].last =
                           IF Len(Chain(res'.p)) = 1 THEN NIL
                           ELSE Chain(res'.p)[Len(Chain(res'.p)) - 1]
      ]_vars

\* Remove took the only node of a list out, while the other list holds the
\* other two nodes.
C19_Witness ==
    /\ res.op = "Remove" /\ res.p # NIL /\ res.node # NIL
    /\ res.node = res.q
    /\ list[res.p] = NewListBase
    /\ Len(Chain(Other(res.p))) = 2

\* C20: in every state reachable through the methods of List_node and
\* List_base, the last call did not return the CorruptState error.
C20_NeverCorrupt == res.err # CorruptState

\* Poplast found the node before the last one by its scan, and Remove of a
\* node that is not the first found its predecessor.
C20_Witness ==
    /\ res.op \in {"Poplast", "Remove"} /\ res.p # NIL /\ res.node # NIL
    /\ Len(Chain(res.p)) = 2
    /\ list[res.p].last # res.node
    /\ list[Other(res.p)] = NewListBase

\* C21: whatever calls of list methods, on the iterator's list and on the
\* other list, come between the calls of Next, a node that Next returns
\* with no error has, when it is returned, the list of the iterator as its
\* base: Next delivers neither a node of another list nor a node that is in
\* no list.
C21_DeliveredNodeOwned ==
    (res.op = "Next" /\ res.node # NIL /\ res.err = NoErr)
        => (iter.base # NIL /\ node[res.node].base = iter.base)

\* Next delivered a node behind the first one of its list while the other
\* list holds a node too.
C21_Witness ==
    /\ res.op = "Next" /\ res.node # NIL /\ res.err = NoErr
    /\ iter.base # NIL
    /\ res.node # list[iter.base].first
    /\ res.node \in Reach(iter.base)
    /\ list[Other(iter.base)].first # NIL

\* C22: on a list of n nodes that no call changes meanwhile, a traversal
\* from the unstarted iterator delivers the n nodes of the chain in order,
\* each with a nil error; the Next after them returns a nil node and a nil
\* error, and so does every Next after that one: the traversal does not
\* start over from the first node.
C22_TraversalEnds ==
    [][(client.pc = "walk" /\ res'.op = "Next") =>
          /\ res'.err = NoErr
          /\ res'.node = IF client.k < Len(Chain(iter.base))
                         THEN Chain(iter.base)[client.k + 1]
                         ELSE NIL
          /\ client.ends > 0 => res'.node = NIL
      ]_vars

\* All nodes of a list of NumNodes nodes were delivered, and Next has
\* returned a nil node with a nil error twice since.
C22_Witness ==
    /\ client.pc = "walk" /\ client.k = NumNodes /\ client.ends = 2
    /\ res.op = "Next" /\ res.node = NIL /\ res.err = NoErr
    /\ Len(Chain(iter.base)) = NumNodes

====
